---- MODULE Spec2Model ----
(***************************************************************************)
(* A model of xprezzo-bytes (src/index.js): format(value, options),        *)
(* parse(val) and the dispatcher module.exports(value, options).           *)
(*                                                                         *)
(* JavaScript numbers are IEEE-754 doubles.  A finite double is a dyadic   *)
(* rational, kept here exactly in base 1024 (the base of the unit table):  *)
(* a sign, the limbs of the integer part (most significant first, no       *)
(* leading zero limb) and the limbs of the fraction (no trailing zero      *)
(* limb).  Dividing or multiplying by a unit's multiplier moves the point  *)
(* by whole limbs, so it is exact, as it is for doubles.  JavaScript       *)
(* strings are sequences of one-character strings.                         *)
(***************************************************************************)
EXTENDS Integers, Sequences, FiniteSets, TLC

\* 1 << 10: every multiplier of the unit table is a power of it.
Base == 1024

----------------------------------------------------------------------------
(* Natural numbers of any size: sequences of limbs in 0..Base-1, most      *)
(* significant first, <<>> for zero.                                       *)

Zeros(n) == IF n <= 0 THEN <<>> ELSE [i \in 1..n |-> 0]

RECURSIVE StripLead(_)
StripLead(s) ==
  IF s = <<>> THEN <<>>
  ELSE IF Head(s) = 0 THEN StripLead(Tail(s)) ELSE s

RECURSIVE StripTrail(_)
StripTrail(s) ==
  IF s = <<>> THEN <<>>
  ELSE IF s[Len(s)] = 0 THEN StripTrail(SubSeq(s, 1, Len(s) - 1)) ELSE s

\* n * c + a; the limbs of n keep their places, a carry adds limbs in front.
RECURSIVE MulAdd(_, _, _)
MulAdd(n, c, a) ==
  IF n = <<>>
  THEN IF a = 0 THEN <<>> ELSE Append(MulAdd(<<>>, c, a \div Base), a % Base)
  ELSE LET last == n[Len(n)] * c + a
       IN  Append(MulAdd(SubSeq(n, 1, Len(n) - 1), c, last \div Base), last % Base)

\* Long division of n by the small number c, r the remainder carried in.
RECURSIVE DivStep(_, _, _, _)
DivStep(n, c, r, q) ==
  IF n = <<>> THEN [q |-> StripLead(q), r |-> r]
  ELSE LET cur == r * Base + Head(n)
       IN  DivStep(Tail(n), c, cur % c, Append(q, cur \div c))

RECURSIVE LexCmp(_, _)
LexCmp(a, b) ==
  IF a = <<>> THEN 0
  ELSE IF Head(a) < Head(b) THEN -1
  ELSE IF Head(a) > Head(b) THEN 1
  ELSE LexCmp(Tail(a), Tail(b))

BigCmp(a, b) ==
  IF Len(a) < Len(b) THEN -1
  ELSE IF Len(a) > Len(b) THEN 1
  ELSE LexCmp(a, b)

BigOdd(n) == n # <<>> /\ n[Len(n)] % 2 = 1

\* The decimal digits (as numbers) of n, most significant first; <<>> for 0.
RECURSIVE BigToDigits(_)
BigToDigits(n) ==
  IF n = <<>> THEN <<>>
  ELSE LET d == DivStep(n, 10, 0, <<>>) IN Append(BigToDigits(d.q), d.r)

RECURSIVE DigitsToBig(_, _)
DigitsToBig(ds, acc) ==
  IF ds = <<>> THEN acc ELSE DigitsToBig(Tail(ds), MulAdd(acc, 10, Head(ds)))

RECURSIVE Pow10(_)
Pow10(d) == IF d = 0 THEN 1 ELSE 10 * Pow10(d - 1)

----------------------------------------------------------------------------
(* Number values.                                                          *)

MkNum(neg, int, frac) ==
  LET i == StripLead(int)
      f == StripTrail(frac)
  IN  [nk |-> "fin", neg |-> neg /\ (i # <<>> \/ f # <<>>), int |-> i, frac |-> f]

NaN == [nk |-> "nan", neg |-> FALSE, int |-> <<>>, frac |-> <<>>]
Infinity == [nk |-> "inf", neg |-> FALSE, int |-> <<>>, frac |-> <<>>]
NegInfinity == [nk |-> "inf", neg |-> TRUE, int |-> <<>>, frac |-> <<>>]
Zero == MkNum(FALSE, <<>>, <<>>)

\* The limbs s with the point t limbs from the right.
PointAt(neg, s, t) ==
  LET p == Zeros(t - Len(s)) \o s
  IN  MkNum(neg, SubSeq(p, 1, Len(p) - t), SubSeq(p, Len(p) - t + 1, Len(p)))

\* Math.abs
Abs(x) == IF x.nk = "nan" THEN x ELSE [x EXCEPT !.neg = FALSE]

\* Rounding toward zero, which Math.floor is not.
Truncate(x) == IF x.nk # "fin" THEN x ELSE MkNum(x.neg, x.int, <<>>)

\* Math.floor
Floor(x) ==
  IF x.nk # "fin" \/ x.frac = <<>> THEN x
  ELSE IF x.neg THEN MkNum(TRUE, MulAdd(x.int, 1, 1), <<>>)
  ELSE MkNum(FALSE, x.int, <<>>)

----------------------------------------------------------------------------
(* Decimal text to the nearest double (round half to even on 53 bits), as  *)
(* parseFloat and parseInt read it, and a double to decimal text, as       *)
(* Number.prototype.toFixed and Number::toString write it.                 *)

TwoPow52 == <<4, 0, 0, 0, 0, 0>>
TwoPow53 == <<8, 0, 0, 0, 0, 0>>

RECURSIVE Pow2(_)
Pow2(b) == IF b = 0 THEN 1 ELSE 2 * Pow2(b - 1)

RECURSIVE LimbBits(_)
LimbBits(l) == IF l = 0 THEN 0 ELSE 1 + LimbBits(l \div 2)

\* The number of bits of n.
BitLen(n) == IF n = <<>> THEN 0 ELSE 10 * (Len(n) - 1) + LimbBits(Head(n))

\* n * 2^j
ShiftBits(n, j) == StripLead(MulAdd(n, Pow2(j % 10), 0) \o Zeros(j \div 10))

\* Round half to even: c compares what is dropped with one half of the last
\* place kept, sticky tells that more follows, odd that the last place is odd.
RoundsUp(c, sticky, odd) == c > 0 \/ (c = 0 /\ (sticky \/ odd))

\* An integer n of 2^53 or more (sticky: a fraction follows it): the j bits
\* past the 53rd are dropped, qr being n's leading limbs divided by the part
\* of 2^j within a limb, and the 53 bits kept are rounded on what was dropped.
RoundBigQ(n, sticky, j, qr) ==
  ShiftBits(
    MulAdd(qr.q, 1,
           IF RoundsUp(BigCmp(StripLead(<<qr.r>> \o SubSeq(n, Len(n) - (j \div 10) + 1, Len(n))),
                              ShiftBits(<<1>>, j - 1)),
                       sticky, BigOdd(qr.q))
           THEN 1 ELSE 0),
    j)
RoundBigJ(n, sticky, j) ==
  RoundBigQ(n, sticky, j, DivStep(SubSeq(n, 1, Len(n) - (j \div 10)), Pow2(j % 10), 0, <<>>))
RoundBig(n, sticky) == RoundBigJ(n, sticky, BitLen(n) - 53)

\* The least k with n * 2^k >= lim, and n * 2^k: k is the difference of the
\* bit lengths, or one more.
ScalePick(n0, k0, ge) ==
  [n |-> MulAdd(n0, IF ge THEN 1 ELSE 2, 0), k |-> IF ge THEN k0 ELSE k0 + 1]
ScaleFrom(n0, k0, lim) == ScalePick(n0, k0, BigCmp(n0, lim) >= 0)
ScaleBy(n, lim, k0) == ScaleFrom(ShiftBits(n, k0), k0, lim)
Gap(a, b) == IF a > b THEN a - b ELSE 0
Scale(n, lim) == ScaleBy(n, lim, Gap(BitLen(lim), BitLen(n)))

\* N / D below 2^53, D a power of ten: the 53-bit quotient of N * 2^k by D,
\* rounded half to even, then put as limbs with the point `point` limbs from
\* the right (the quotient over 2^k).
Quotient(qr, D) ==
  MulAdd(qr.q, 1, IF RoundsUp(2 * qr.r - D, FALSE, BigOdd(qr.q)) THEN 1 ELSE 0)
Placed(q, k) == [limbs |-> ShiftBits(q, (10 - (k % 10)) % 10), point |-> (k + 9) \div 10]
RoundScaled(s, D) == Placed(Quotient(DivStep(s.n, D, 0, <<>>), D), s.k)
RoundSmallD(N, D) == RoundScaled(Scale(N, MulAdd(TwoPow52, D, 0)), D)
RoundSmall(N, d) == RoundSmallD(N, Pow10(d))

AnyNonZero(ds) == \E i \in 1..Len(ds) : ds[i] # 0
Place(neg, r) == PointAt(neg, r.limbs, r.point)
FromSmall(neg, N, d) == IF N = <<>> THEN Zero ELSE Place(neg, RoundSmall(N, d))
FromParts(neg, I, fracDs) ==
  IF BigCmp(I, TwoPow53) >= 0
  THEN MkNum(neg, RoundBig(I, AnyNonZero(fracDs)), <<>>)
  ELSE FromSmall(neg, DigitsToBig(fracDs, I), Len(fracDs))

\* The double nearest to (-)intDs.fracDs, digits given as numbers.
DecimalToDouble(neg, intDs, fracDs) == FromParts(neg, DigitsToBig(intDs, <<>>), fracDs)

DigitChars == <<"0", "1", "2", "3", "4", "5", "6", "7", "8", "9">>
DigitChar(d) == DigitChars[d + 1]
IsDigit(c) == \E d \in 0..9 : DigitChars[d + 1] = c
DigitVal(c) == CHOOSE d \in 0..9 : DigitChars[d + 1] = c
ToChars(ds) == IF ds = <<>> THEN <<>> ELSE [i \in 1..Len(ds) |-> DigitChar(ds[i])]
ToDigits(cs) == IF cs = <<>> THEN <<>> ELSE [i \in 1..Len(cs) |-> DigitVal(cs[i])]

\* JavaScript values: what a call is given and what it returns or throws.
JSNull == [t |-> "null"]
JSUndefined == [t |-> "undefined"]
JSString(s) == [t |-> "string", s |-> s]
JSNumber(v) == [t |-> "number", v |-> v]
JSBoolean(b) == [t |-> "boolean", b |-> b]
JSObject(n) == [t |-> "object", name |-> n]
JSFunction(n) == [t |-> "function", name |-> n]
Throw(n) == [t |-> "throw", name |-> n]

\* The first f decimal digits of the fraction fr, and what is left of it.
RECURSIVE FracDigits(_, _, _)
FracDigits(fr, f, acc) ==
  IF f = 0 THEN [ds |-> acc, rem |-> fr]
  ELSE LET m == MulAdd(fr, 10, 0)
       IN  IF Len(m) > Len(fr)
           THEN FracDigits(Tail(m), f - 1, Append(acc, Head(m)))
           ELSE FracDigits(m, f - 1, Append(acc, 0))

RECURSIVE IncDigits(_)
IncDigits(ds) ==
  IF ds = <<>> THEN <<1>>
  ELSE IF ds[Len(ds)] < 9 THEN [ds EXCEPT ![Len(ds)] = @ + 1]
  ELSE Append(IncDigits(SubSeq(ds, 1, Len(ds) - 1)), 0)

\* ds rounded to its first k digits, half to even, the rest zeroed.
RoundDigits(ds, k) ==
  LET keep == SubSeq(ds, 1, k)
      rest == SubSeq(ds, k + 1, Len(ds))
      tail == \E i \in 2..Len(rest) : rest[i] # 0
      up   == rest # <<>> /\ (rest[1] > 5 \/ (rest[1] = 5 /\ (tail \/ keep[k] % 2 = 1)))
  IN  (IF up THEN IncDigits(keep) ELSE keep) \o Zeros(Len(rest))

\* The fewest significant digits that read back as the integer double x:
\* c is ds rounded to k digits.
RECURSIVE ShortestDigits(_, _, _)
RECURSIVE ShortestOr(_, _, _, _)
ShortestOr(x, ds, k, c) ==
  IF k >= Len(ds) \/ DecimalToDouble(FALSE, c, <<>>) = Abs(x) THEN c
  ELSE ShortestDigits(x, ds, k + 1)
ShortestDigits(x, ds, k) == ShortestOr(x, ds, k, RoundDigits(ds, k))

\* Number::toString of a finite x with abs(x) >= 10^21: exponent notation.
ExponentText(sig, e) ==
  IF Len(sig) = 1 THEN sig \o <<"e", "+">> \o e
  ELSE <<sig[1], ".">> \o Tail(sig) \o <<"e", "+">> \o e
Exponential(c) == ExponentText(ToChars(StripTrail(c)), ToChars(BigToDigits(<<Len(c) - 1>>)))
ToStringLarge(x) == Exponential(ShortestDigits(x, BigToDigits(x.int), 1))

\* toFixed accepts 0..100 fraction digits (ECMA-262 21.1.3.3 step 5).
MaxFractionDigits == 100
\* At 10^21 (22 digits) and beyond toFixed answers as Number::toString.
ExponentDigits == 22

\* The digits n of the integer nearest to x * 10^f, written with f of them
\* after a point, zeros put in front of fewer than f + 1.
PointText(m, f) ==
  ToChars(SubSeq(m, 1, Len(m) - f)) \o <<".">> \o ToChars(SubSeq(m, Len(m) - f + 1, Len(m)))
FixedText(n, f) ==
  IF f = 0 THEN ToChars(IF n = <<>> THEN <<0>> ELSE n)
  ELSE PointText(Zeros(f + 1 - Len(n)) \o n, f)
\* ds are the digits of x * 10^f cut off, rem what was cut: a half or more
\* rounds up (of two nearest integers toFixed takes the larger).
RoundedDigits(ds, rem) ==
  StripLead(IF rem # <<>> /\ rem[1] >= Base \div 2 THEN IncDigits(ds) ELSE ds)
Rounded(ids, fd) == RoundedDigits(ids \o fd.ds, fd.rem)
ToFixedFinite(s, ids, x, f) ==
  IF Len(ids) >= ExponentDigits THEN JSString(s \o ToStringLarge(x))
  ELSE JSString(s \o FixedText(Rounded(ids, FracDigits(x.frac, f, <<>>)), f))

\* Number.prototype.toFixed
ToFixed(x, f) ==
  IF f < 0 \/ f > MaxFractionDigits THEN Throw("RangeError")
  ELSE IF x.nk = "nan" THEN JSString(<<"N", "a", "N">>)
  ELSE IF x.nk = "inf"
  THEN JSString((IF x.neg THEN <<"-">> ELSE <<>>)
                  \o <<"I", "n", "f", "i", "n", "i", "t", "y">>)
  ELSE ToFixedFinite(IF x.neg THEN <<"-">> ELSE <<>>, BigToDigits(x.int), x, f)

----------------------------------------------------------------------------
(* Strings, the language's coercions and operators.                        *)

UpperChars == <<"A", "B", "C", "D", "E", "F", "G", "H", "I", "J", "K", "L", "M",
                "N", "O", "P", "Q", "R", "S", "T", "U", "V", "W", "X", "Y", "Z">>
LowerChars == <<"a", "b", "c", "d", "e", "f", "g", "h", "i", "j", "k", "l", "m",
                "n", "o", "p", "q", "r", "s", "t", "u", "v", "w", "x", "y", "z">>
IsUpper(c) == \E i \in 1..26 : UpperChars[i] = c
IsLower(c) == \E i \in 1..26 : LowerChars[i] = c
LowerChar(c) ==
  IF IsUpper(c) THEN LowerChars[CHOOSE i \in 1..26 : UpperChars[i] = c] ELSE c

\* String.prototype.toLowerCase
toLowerCase(s) == IF s = <<>> THEN <<>> ELSE [i \in 1..Len(s) |-> LowerChar(s[i])]

\* typeof
TypeOf(v) == IF v.t = "null" THEN "object" ELSE v.t

\* ToBoolean: what `!x`, `x && y`, `x || y` and Boolean(x) test.
ToBoolean(v) ==
  CASE v.t = "undefined" -> FALSE
    [] v.t = "null"      -> FALSE
    [] v.t = "boolean"   -> v.b
    [] v.t = "string"    -> v.s # <<>>
    [] v.t = "number"    -> v.v.nk # "nan" /\ v.v # Zero
    [] OTHER             -> TRUE

\* x && y, x || y
And(x, y) == IF ToBoolean(x) THEN y ELSE x
Or(x, y) == IF ToBoolean(x) THEN x ELSE y

\* o.f : a field an object does not hold, or a field of a primitive, reads
\* as undefined.
Get(o, f) == IF o.t = "object" /\ f \in DOMAIN o THEN o[f] ELSE JSUndefined

\* ToNumber of an operand of `/`: an object or a function becomes a string
\* that is no numeric literal, so NaN.
ToNumber(v) == IF v.t = "number" THEN v.v ELSE NaN

\* Number.isFinite, isNaN
IsFinite(v) == v.t = "number" /\ v.v.nk = "fin"
IsNaN(v) == ToNumber(v).nk = "nan"

\* y = Base^e for some e >= 0: the shape of every multiplier of the table.
IsPowerOfBase(y) ==
  /\ y.nk = "fin" /\ ~y.neg /\ y.frac = <<>> /\ y.int # <<>>
  /\ Head(y.int) = 1 /\ \A i \in 2..Len(y.int) : y.int[i] = 0

\* x / y for a finite x and y a power of Base (exact in doubles).
Divide(x, y) ==
  CASE x.nk = "nan" \/ y.nk = "nan" -> NaN
    [] x.nk = "fin" /\ IsPowerOfBase(y) ->
         PointAt(x.neg, x.int \o x.frac, Len(x.frac) + Len(y.int) - 1)

\* y * x for y a power of Base (exact in doubles).
Multiply(y, x) ==
  CASE x.nk = "nan" \/ y.nk = "nan" -> NaN
    [] x.nk = "inf" /\ IsPowerOfBase(y) -> x
    [] x.nk = "fin" /\ IsPowerOfBase(y) ->
         PointAt(x.neg, x.int \o x.frac \o Zeros(Len(y.int) - 1), Len(x.frac))

\* x >= y for finite x, y >= 0
GreaterEq(x, y) ==
  LET c == BigCmp(x.int, y.int)
      n == IF Len(x.frac) > Len(y.frac) THEN Len(x.frac) ELSE Len(y.frac)
  IN  c > 0 \/ (c = 0 /\ LexCmp(x.frac \o Zeros(n - Len(x.frac)),
                                y.frac \o Zeros(n - Len(y.frac))) >= 0)

\* ToIntegerOrInfinity of a fraction-digits argument; all that toFixed asks
\* of a count of Base or more is that it is past its limit.
ToInteger(x) ==
  LET n == IF x.int = <<>> THEN 0 ELSE IF Len(x.int) > 1 THEN Base ELSE x.int[1]
  IN  IF x.nk = "nan" THEN 0
      ELSE IF x.nk = "inf" THEN (IF x.neg THEN -Base ELSE Base)
      ELSE IF x.neg THEN -n ELSE n

----------------------------------------------------------------------------
(* The module's patterns.  A pattern object holds its flags and lastIndex, *)
(* the one field a match can write.                                        *)

Min(S) == CHOOSE x \in S : \A y \in S : x <= y

IsWordChar(c) == IsDigit(c) \/ IsUpper(c) \/ IsLower(c) \/ c = "_"
WordAt(str, i) == i >= 1 /\ i <= Len(str) /\ IsWordChar(str[i])

\* The length of the run of digits (of spaces, of white space) that starts
\* after the first p characters of str.
DigitRun(str, p) ==
  CHOOSE k \in 0..(Len(str) - p) :
    /\ \A i \in (p + 1)..(p + k) : IsDigit(str[i])
    /\ (p + k = Len(str) \/ ~IsDigit(str[p + k + 1]))
SpaceRun(str, p) ==
  CHOOSE k \in 0..(Len(str) - p) :
    /\ \A i \in (p + 1)..(p + k) : str[i] = " "
    /\ (p + k = Len(str) \/ str[p + k + 1] # " ")
WhiteSpace == {" ", "\t", "\n", "\r"}
WhiteRun(str, p) ==
  CHOOSE k \in 0..(Len(str) - p) :
    /\ \A i \in (p + 1)..(p + k) : str[i] \in WhiteSpace
    /\ (p + k = Len(str) \/ str[p + k + 1] \notin WhiteSpace)

\* /\B(?=(\d{3})+(?!\d))/ at the position after the first p characters: no
\* word boundary there, and the digits that follow end after a multiple of
\* three of them.  The match is empty.
ThousandsMatchAt(str, p) ==
  /\ WordAt(str, p) = WordAt(str, p + 1)
  /\ DigitRun(str, p) >= 3
  /\ DigitRun(str, p) % 3 = 0

\* The loop of RegExp.prototype[Symbol.replace] for a global pattern, from
\* lastIndex li: each match is replaced and, being empty, moves lastIndex one
\* past it; the search that fails sets lastIndex to 0 and ends the loop.
\* The characters before index from are already copied.
RECURSIVE ThousandsLoopKeep(_, _, _, _)
RECURSIVE ThousandsLoop(_, _, _, _)
\* The loop, were the failing search to leave lastIndex where it stood.
ThousandsLoopKeep(str, sep, li, from) ==
  LET ps == {p \in li..Len(str) : ThousandsMatchAt(str, p)}
  IN  IF ps = {} THEN [out |-> SubSeq(str, from, Len(str)), lastIndex |-> li]
      ELSE LET p == Min(ps)
               r == ThousandsLoopKeep(str, sep, p + 1, p + 1)
           IN  [out |-> SubSeq(str, from, p) \o sep \o r.out, lastIndex |-> r.lastIndex]

ThousandsLoop(str, sep, li, from) ==
  LET ps == {p \in li..Len(str) : ThousandsMatchAt(str, p)}
  IN  IF ps = {} THEN [out |-> SubSeq(str, from, Len(str)), lastIndex |-> 0]
      ELSE LET p == Min(ps)
               r == ThousandsLoop(str, sep, p + 1, p + 1)
           IN  [out |-> SubSeq(str, from, p) \o sep \o r.out, lastIndex |-> r.lastIndex]

\* str.replace(formatThousandsRegExp, sep), sep free of "$": the string and
\* the pattern object after it.  A global pattern starts from lastIndex 0; a
\* pattern that is not global replaces its first match and writes nothing.
ReplaceThousands(str, sep, re) ==
  IF re.global
  THEN LET r == ThousandsLoop(str, sep, 0, 1)
       IN  [str |-> r.out, re |-> [re EXCEPT !.lastIndex = r.lastIndex]]
  ELSE LET ps == {p \in 0..Len(str) : ThousandsMatchAt(str, p)}
       IN  IF ps = {} THEN [str |-> str, re |-> re]
           ELSE [str |-> SubSeq(str, 1, Min(ps)) \o sep \o SubSeq(str, Min(ps) + 1, Len(str)),
                 re  |-> re]

\* /(?:\.0*|(\.[^0]+)0+)$/ from the character str[i]: the first alternative
\* is a point and zeros to the end; the second a point, characters other
\* than "0" up to str[j], then zeros to the end.
AllZero(str, a, b) == \A k \in a..b : str[k] = "0"
DecimalsAlt1(str, i) == str[i] = "." /\ AllZero(str, i + 1, Len(str))
DecimalsAlt2(str, i) ==
  {j \in (i + 1)..(Len(str) - 1) :
     /\ str[i] = "."
     /\ \A k \in (i + 1)..j : str[k] # "0"
     /\ AllZero(str, j + 1, Len(str))}

\* str.replace(formatDecimalsRegExp, '$1'): the leftmost match is replaced
\* by its first group, which is empty under the first alternative.
ReplaceDecimals(str) ==
  LET is == {i \in 1..Len(str) : DecimalsAlt1(str, i) \/ DecimalsAlt2(str, i) # {}}
  IN  IF is = {} THEN str
      ELSE LET i == Min(is)
           IN  IF DecimalsAlt1(str, i) THEN SubSeq(str, 1, i - 1)
               ELSE SubSeq(str, 1, CHOOSE j \in DecimalsAlt2(str, i) : TRUE)

Ch(a, b) == <<a, b>>
ParseUnits == {Ch("k", "b"), Ch("m", "b"), Ch("g", "b"), Ch("t", "b"), Ch("p", "b")}

\* parseRegExp.exec(str) for /^((-|\+)?(\d+(?:\.\d+)?)) *(kb|mb|gb|tb|pb)$/i:
\* group 1 (the signed number) and group 4 (the unit), or no match.  Each
\* part is greedy and nothing it gives back could match what follows it.
ExecParse(str, re) ==
  LET n    == Len(str)
      sign == IF n >= 1 /\ str[1] \in {"-", "+"} THEN 1 ELSE 0
      d1   == DigitRun(str, sign)
      p    == sign + d1
      fr   == IF p + 1 <= n /\ str[p + 1] = "." /\ DigitRun(str, p + 1) >= 1
              THEN 1 + DigitRun(str, p + 1) ELSE 0
      g1   == p + fr
      sp   == SpaceRun(str, g1)
      u    == SubSeq(str, g1 + sp + 1, n)
      ok   == /\ d1 >= 1
              /\ (IF re.ignoreCase THEN toLowerCase(u) ELSE u) \in ParseUnits
  IN  IF ok THEN [matched |-> TRUE, g1 |-> SubSeq(str, 1, g1), g4 |-> u]
      ELSE [matched |-> FALSE, g1 |-> <<>>, g4 |-> <<>>]

\* parseInt(str, 10): white space, a sign, then digits; NaN without a digit.
parseInt(str) ==
  LET w    == WhiteRun(str, 0)
      sign == IF w + 1 <= Len(str) /\ str[w + 1] \in {"-", "+"} THEN 1 ELSE 0
      d    == DigitRun(str, w + sign)
  IN  IF d = 0 THEN NaN
      ELSE DecimalToDouble(sign = 1 /\ str[w + 1] = "-",
                           ToDigits(SubSeq(str, w + sign + 1, w + sign + d)), <<>>)

\* parseFloat(str) of a decimal literal without exponent: white space, a
\* sign, digits, a point and digits; NaN without a digit.
parseFloat(str) ==
  LET w    == WhiteRun(str, 0)
      sign == IF w + 1 <= Len(str) /\ str[w + 1] \in {"-", "+"} THEN 1 ELSE 0
      p    == w + sign
      d1   == DigitRun(str, p)
      pt   == p + d1 + 1 <= Len(str) /\ str[p + d1 + 1] = "."
      d2   == IF pt THEN DigitRun(str, p + d1 + 1) ELSE 0
  IN  IF d1 + d2 = 0 THEN NaN
      ELSE DecimalToDouble(sign = 1 /\ str[w + 1] = "-",
                           ToDigits(SubSeq(str, p + 1, p + d1)),
                           ToDigits(SubSeq(str, p + d1 + 2, p + d1 + 1 + d2)))

----------------------------------------------------------------------------
(* The module: its variables (src/index.js lines 12 to 22) and functions.  *)

VARIABLES
  formatThousandsRegExp,  \* the pattern object of line 12
  formatDecimalsRegExp,   \* the pattern object of line 13
  map,                    \* the unit table of lines 14 to 21
  parseRegExp,            \* the pattern object of line 22
  pc,                     \* "idle", or "returned" right after a call
  call,                   \* the call made last: function and arguments
  result                  \* what the call returned or threw

vars == <<formatThousandsRegExp, formatDecimalsRegExp, map, parseRegExp, pc, call, result>>

\* 1 << k on 32-bit integers, for the k < 31 of the table.
ShiftLeft(k) == MkNum(FALSE, ShiftBits(<<1>>, k), <<>>)
\* Math.pow(1024, n)
PowBase(n) == MkNum(FALSE, <<1>> \o Zeros(n), <<>>)

KeyB == <<"b">>
KeyKB == Ch("k", "b")
KeyMB == Ch("m", "b")
KeyGB == Ch("g", "b")
KeyTB == Ch("t", "b")
KeyPB == Ch("p", "b")
UnitKeys == {KeyB, KeyKB, KeyMB, KeyGB, KeyTB, KeyPB}

InitMap ==
  [k \in UnitKeys |->
     CASE k = KeyB  -> JSNumber(ShiftLeft(0))
       [] k = KeyKB -> JSNumber(ShiftLeft(10))
       [] k = KeyMB -> JSNumber(ShiftLeft(20))
       [] k = KeyGB -> JSNumber(ShiftLeft(30))
       [] k = KeyTB -> JSNumber(PowBase(4))
       [] k = KeyPB -> JSNumber(PowBase(5))]

\* map is an object literal: a key it does not hold is looked up in
\* Object.prototype, which holds these among others.
KeyConstructor == <<"c", "o", "n", "s", "t", "r", "u", "c", "t", "o", "r">>
KeyProto == <<"_", "_", "p", "r", "o", "t", "o", "_", "_">>
KeyToString == <<"t", "o", "S", "t", "r", "i", "n", "g">>
ObjectPrototype ==
  [k \in {KeyConstructor, KeyProto, KeyToString} |->
     CASE k = KeyConstructor -> JSFunction("Object")
       [] k = KeyProto       -> JSObject("Object.prototype")
       [] k = KeyToString    -> JSFunction("toString")]

\* m[key]
MapGet(m, key) ==
  IF key \in DOMAIN m THEN m[key]
  ELSE IF key \in DOMAIN ObjectPrototype THEN ObjectPrototype[key]
  ELSE JSUndefined

InitRegExp(g, i) == [global |-> g, ignoreCase |-> i, lastIndex |-> 0]

\* The unit format picks from the magnitude (lines 78 to 90).
AutoUnit(mag, m) ==
  IF GreaterEq(mag, ToNumber(MapGet(m, KeyPB))) THEN Ch("P", "B")
  ELSE IF GreaterEq(mag, ToNumber(MapGet(m, KeyTB))) THEN Ch("T", "B")
  ELSE IF GreaterEq(mag, ToNumber(MapGet(m, KeyGB))) THEN Ch("G", "B")
  ELSE IF GreaterEq(mag, ToNumber(MapGet(m, KeyMB))) THEN Ch("M", "B")
  ELSE IF GreaterEq(mag, ToNumber(MapGet(m, KeyKB))) THEN Ch("K", "B")
  ELSE <<"B">>

\* decimalPlaces when options does not give it (line 74).
DefaultDecimalPlaces == 2

\* Lines 76 and 77: the unit asked for, kept when it is a truthy entry of map.
UnitKept(unit0, m) ==
  ToBoolean(unit0) /\ ToBoolean(MapGet(m, toLowerCase(unit0.s)))

\* Lines 94 to 99: the two replacements on the fixed-point text.
Thousands(str1, thousandsSeparator, re) ==
  IF ToBoolean(thousandsSeparator)
  THEN ReplaceThousands(str1, thousandsSeparator.s, re)
  ELSE [str |-> str1, re |-> re]
Separate(str, fixedDecimals, thousandsSeparator, re) ==
  Thousands(IF ~fixedDecimals THEN ReplaceDecimals(str) ELSE str, thousandsSeparator, re)

\* Lines 72 to 76: what format reads from options.
OptThousandsSeparator(options) ==
  Or(And(options, Get(options, "thousandsSeparator")), JSString(<<>>))
OptUnitSeparator(options) ==
  Or(And(options, Get(options, "unitSeparator")), JSString(<<>>))
OptDecimalPlaces(options) ==
  IF ToBoolean(And(options, JSBoolean(Get(options, "decimalPlaces") # JSUndefined)))
  THEN ToInteger(ToNumber(Get(options, "decimalPlaces")))
  ELSE DefaultDecimalPlaces
OptFixedDecimals(options) == ToBoolean(And(options, Get(options, "fixedDecimals")))
OptUnit(options) == Or(And(options, Get(options, "unit")), JSString(<<>>))

\* Lines 77 to 90: the unit of the result.
ResolveUnit(unit0, mag, m) == IF UnitKept(unit0, m) THEN unit0.s ELSE AutoUnit(mag, m)

\* Lines 93 to 100: str is what toFixed returned or threw.
Finish(sep, unitSeparator, unit) ==
  [ret |-> JSString(sep.str \o unitSeparator.s \o unit), re |-> sep.re]
FormatText(str, options, unit, re) ==
  IF str.t = "throw" THEN [ret |-> str, re |-> re]
  ELSE Finish(Separate(str.s, OptFixedDecimals(options), OptThousandsSeparator(options), re),
              OptUnitSeparator(options), unit)

\* Lines 92 and 93, unit being the unit chosen.
FormatIn(v, options, unit, m, re) ==
  FormatText(ToFixed(Divide(v, ToNumber(MapGet(m, toLowerCase(unit)))), OptDecimalPlaces(options)),
             options, unit, re)

\* format(value, options) with the table m and the thousands pattern re:
\* what it returns or throws, and the pattern object afterwards.
format(value, options, m, re) ==
  IF ~IsFinite(value) THEN [ret |-> JSNull, re |-> re]
  ELSE FormatIn(value.v, options, ResolveUnit(OptUnit(options), Abs(value.v), m), m, re)

\* Lines 124 to 133: results is what exec returned.
ParseResults(str, results, m) ==
  JSNumber(Floor(Multiply(
    ToNumber(MapGet(m, IF ~results.matched THEN KeyB ELSE toLowerCase(results.g4))),
    IF ~results.matched THEN parseInt(str) ELSE parseFloat(results.g1))))

\* parse, were line 113 to return every number, NaN among them.
parseEveryNumber(val, m, re) ==
  IF TypeOf(val) = "number" THEN val
  ELSE IF TypeOf(val) # "string" THEN JSNull
  ELSE ParseResults(val.s, ExecParse(val.s, re), m)

\* parse(val) with the table m and the pattern re (exec on a pattern that
\* is not global writes nothing to it).
parse(val, m, re) ==
  IF TypeOf(val) = "number" /\ ~IsNaN(val) THEN val
  ELSE IF TypeOf(val) # "string" THEN JSNull
  ELSE ParseResults(val.s, ExecParse(val.s, re), m)

\* The dispatcher, were it to call format without the options.
convertWithoutOptions(value, options, m, thousandsRe, parseRe) ==
  IF TypeOf(value) = "string" THEN [ret |-> parse(value, m, parseRe), re |-> thousandsRe]
  ELSE IF TypeOf(value) = "number" THEN format(value, JSUndefined, m, thousandsRe)
  ELSE [ret |-> JSNull, re |-> thousandsRe]

\* module.exports(value, options)
convert(value, options, m, thousandsRe, parseRe) ==
  IF TypeOf(value) = "string" THEN [ret |-> parse(value, m, parseRe), re |-> thousandsRe]
  ELSE IF TypeOf(value) = "number" THEN format(value, options, m, thousandsRe)
  ELSE [ret |-> JSNull, re |-> thousandsRe]

----------------------------------------------------------------------------
(* The arguments the calls are made with.                                  *)

\* Numbers: a leading limb, then len limbs in one of five patterns, the
\* last frac of them after the point.
MaxLimbs == 5
MaxFracLimbs == 1
TopLimbs == {1, 1023}
Patterns == {"zeros", "ones", "half", "quarter", "low"}
PatternLimbs(pat, len) ==
  IF len = 0 THEN <<>>
  ELSE CASE pat = "zeros"   -> Zeros(len)
         [] pat = "ones"    -> [i \in 1..len |-> Base - 1]
         [] pat = "half"    -> <<Base \div 2>> \o Zeros(len - 1)
         [] pat = "quarter" -> <<Base \div 4>> \o Zeros(len - 1)
         [] pat = "low"     -> <<51>> \o Zeros(len - 1)

Magnitudes ==
  {PointAt(FALSE, <<top>> \o PatternLimbs(pat, len), frac) :
     top \in TopLimbs, pat \in Patterns, len \in 0..MaxLimbs, frac \in 0..MaxFracLimbs}

\* 10^21 * 1024^5, the least magnitude whose count of petabytes toFixed
\* writes with an exponent, and 2^69 * 1024^5 below it.
TenTo21PB == MkNum(FALSE, <<867, 370, 429, 791, 490, 0, 0>> \o Zeros(5), <<>>)
TwoTo69PB == MkNum(FALSE, <<512>> \o Zeros(11), <<>>)

FiniteNumbers ==
  LET mags == Magnitudes \cup {TenTo21PB, TwoTo69PB}
  IN  {Zero} \cup mags \cup {[x EXCEPT !.neg = TRUE] : x \in mags}

Numbers == FiniteNumbers \cup {NaN, Infinity, NegInfinity}

\* Values that are neither numbers nor strings.
OtherValues == {JSUndefined, JSNull, JSBoolean(TRUE), JSBoolean(FALSE), JSObject("{}")}

\* Options: absent, null, or an object whose fields are absent or of the
\* documented types.
MaxDecimalPlaces == 4
DecimalPlacesValues ==
  {JSUndefined}
    \cup {JSNumber(MkNum(FALSE, <<n>>, <<>>)) : n \in 0..MaxDecimalPlaces}
    \cup {JSNumber(MkNum(FALSE, <<MaxFractionDigits + 1>>, <<>>))}
SeparatorValues == {JSUndefined, JSString(<<",">>)}
UnitSeparatorValues == {JSUndefined, JSString(<<" ">>)}
UnitValues ==
  {JSUndefined, JSString(<<>>), JSString(Ch("k", "b")), JSString(Ch("M", "B")),
   JSString(Ch("x", "b")), JSString(KeyConstructor)}
OptionObjects ==
  {[t |-> "object", name |-> "options", decimalPlaces |-> dp, fixedDecimals |-> fd,
    thousandsSeparator |-> ts, unitSeparator |-> us, unit |-> u] :
     dp \in DecimalPlacesValues, fd \in {JSUndefined, JSBoolean(TRUE)},
     ts \in SeparatorValues, us \in UnitSeparatorValues, u \in UnitValues}
Options == {JSUndefined, JSNull} \cup OptionObjects

\* Strings of the parser's grammar, [sign] digits ['.' digits] [spaces] unit.
MaxFracDigits == 2
MaxSpaces == 1
Signs == {<<>>, <<"-">>, <<"+">>}
IntParts == {<<"0">>, <<"1">>, <<"1", "5">>, <<"1", "0", "2", "3">>}
DigitAlphabet == {"0", "1", "5"}
DigitStrings(n) == UNION {[1..k -> DigitAlphabet] : k \in 1..n}
FracParts == {<<>>} \cup {<<".">> \o d : d \in DigitStrings(MaxFracDigits)}
Spaces == {[i \in 1..k |-> " "] : k \in 1..MaxSpaces} \cup {<<>>}
\* Each unit in lower case and in upper case, the first of them in mixed
\* case as well.
UpperChar(c) == IF IsLower(c) THEN UpperChars[CHOOSE i \in 1..26 : LowerChars[i] = c] ELSE c
UnitSpellings ==
  ParseUnits \cup {<<UpperChar(u[1]), UpperChar(u[2])>> : u \in ParseUnits}
    \cup {Ch("K", "b"), Ch("k", "B")}
GrammarStrings ==
  {s \o i \o f \o sp \o u :
     s \in Signs, i \in IntParts, f \in FracParts, sp \in Spaces, u \in UnitSpellings}

\* Strings outside the grammar.
OtherStrings ==
  {<<>>, <<"a", "b", "c">>, <<"3", ".", "7">>, <<"1", "0", "0">>, <<" ", "1", "2">>, <<"-", "5", "B">>, <<"1", "k", "i", "b">>, <<"+", "7">>, <<"1", "b">>, <<"0", ".", "5", "b">>, <<"k", "b">>, <<".", "5", "k", "b">>, <<"5", ".", "k", "b">>, <<"1", " ", "k", "b", " ">>, <<" ", "1", "k", "b">>, <<"1", ",", "0", "2", "4", "k", "b">>, <<"-">>, <<"1", "e", "+", "2", "1", "P", "B">>}

Strings == GrammarStrings \cup OtherStrings

\* Options that give the unit alone.
UnitOptions ==
  {o \in OptionObjects :
     /\ o.decimalPlaces = JSUndefined /\ o.fixedDecimals = JSUndefined
     /\ o.thousandsSeparator = JSUndefined /\ o.unitSeparator = JSUndefined}

\* Numbers of at most two limbs.
ShortNumbers == {x \in FiniteNumbers : Len(x.int) + Len(x.frac) <= 2}

\* What format is called with: every number under the options that give at
\* most the unit, the short numbers under every options, and values
\* that are not numbers.
FormatArguments ==
  ({JSNumber(x) : x \in Numbers} \X ({JSUndefined, JSNull} \cup UnitOptions))
    \cup ({JSNumber(x) : x \in ShortNumbers} \X Options)
    \cup ((OtherValues \cup {JSString(<<"1", "2">>)}) \X {JSUndefined})

\* What parse is called with.
ParseArguments ==
  {JSString(s) : s \in Strings} \cup {JSNumber(x) : x \in Numbers} \cup OtherValues

\* What the dispatcher is called with.
ConvertStrings == OtherStrings \cup {s \in GrammarStrings : Len(s) <= 3}
ConvertArguments ==
  (({JSNumber(x) : x \in ShortNumbers \cup {NaN, Infinity, NegInfinity}}
      \cup {JSString(s) : s \in ConvertStrings} \cup OtherValues)
     \X ({JSUndefined} \cup UnitOptions))

----------------------------------------------------------------------------
(* The state machine: a caller calls one of the three exported functions   *)
(* and takes what it returns.                                              *)

NoCall == [fn |-> "none", value |-> JSUndefined, options |-> JSUndefined]

Init ==
  /\ formatThousandsRegExp = InitRegExp(TRUE, FALSE)
  /\ formatDecimalsRegExp = InitRegExp(FALSE, FALSE)
  /\ map = InitMap
  /\ parseRegExp = InitRegExp(FALSE, TRUE)
  /\ pc = "idle"
  /\ call = NoCall
  /\ result = JSUndefined

\* A call ends: what it returned or threw, and the thousands pattern it may
\* have written to.
Returns(r) ==
  /\ result' = r.ret
  /\ formatThousandsRegExp' = r.re

CallFormat ==
  /\ pc = "idle"
  /\ \E a \in FormatArguments :
       /\ call' = [fn |-> "format", value |-> a[1], options |-> a[2]]
       /\ Returns(format(a[1], a[2], map, formatThousandsRegExp))
  /\ pc' = "returned"
  /\ UNCHANGED <<formatDecimalsRegExp, map, parseRegExp>>

CallParse ==
  /\ pc = "idle"
  /\ \E val \in ParseArguments :
       /\ call' = [fn |-> "parse", value |-> val, options |-> JSUndefined]
       /\ result' = parse(val, map, parseRegExp)
  /\ pc' = "returned"
  /\ UNCHANGED <<formatThousandsRegExp, formatDecimalsRegExp, map, parseRegExp>>

CallConvert ==
  /\ pc = "idle"
  /\ \E a \in ConvertArguments :
       /\ call' = [fn |-> "convert", value |-> a[1], options |-> a[2]]
       /\ Returns(convert(a[1], a[2], map, formatThousandsRegExp, parseRegExp))
  /\ pc' = "returned"
  /\ UNCHANGED <<formatDecimalsRegExp, map, parseRegExp>>

\* The caller has the result; the call's frame is gone.
Return ==
  /\ pc = "returned"
  /\ pc' = "idle"
  /\ call' = NoCall
  /\ result' = JSUndefined
  /\ UNCHANGED <<formatThousandsRegExp, formatDecimalsRegExp, map, parseRegExp>>

Next == CallFormat \/ CallParse \/ CallConvert \/ Return

Spec == Init /\ [][Next]_vars

----------------------------------------------------------------------------
(* The properties of the module, and the states that show their cases.     *)

FormatReturned == pc = "returned" /\ call.fn = "format"
ParseReturned == pc = "returned" /\ call.fn = "parse"
ConvertReturned == pc = "returned" /\ call.fn = "convert"

IsLetter(c) == IsUpper(c) \/ IsLower(c)
Contains(str, c) == \E i \in 1..Len(str) : str[i] = c
EndsWith(str, suf) ==
  Len(str) >= Len(suf) /\ SubSeq(str, Len(str) - Len(suf) + 1, Len(str)) = suf

\* The number a result of format starts with: sign, digits, point, commas.
IsNumberChar(c) == IsDigit(c) \/ c \in {"-", ".", ","}
NumericPart(str) ==
  SubSeq(str, 1, CHOOSE k \in 0..Len(str) :
                   /\ \A i \in 1..k : IsNumberChar(str[i])
                   /\ (k = Len(str) \/ ~IsNumberChar(str[k + 1])))

\* options with its field f set to v.
NoOptions ==
  [t |-> "object", name |-> "options", decimalPlaces |-> JSUndefined,
   fixedDecimals |-> JSUndefined, thousandsSeparator |-> JSUndefined,
   unitSeparator |-> JSUndefined, unit |-> JSUndefined]
WithOption(options, f, v) ==
  [(IF options.t = "object" THEN options ELSE NoOptions) EXCEPT ![f] = v]

\* Order on finite numbers.
CmpMag(x, y) ==
  IF BigCmp(x.int, y.int) # 0 THEN BigCmp(x.int, y.int)
  ELSE LexCmp(x.frac \o Zeros(Len(y.frac) - Len(x.frac)),
              y.frac \o Zeros(Len(x.frac) - Len(y.frac)))
LessEq(x, y) ==
  IF x.neg # y.neg THEN x.neg
  ELSE IF x.neg THEN CmpMag(y, x) <= 0 ELSE CmpMag(x, y) <= 0

\* n - 1 for n > 0, and r + 1 for an integer r.
RECURSIVE Pred(_)
Pred(n) ==
  IF n[Len(n)] = 0 THEN Append(Pred(SubSeq(n, 1, Len(n) - 1)), Base - 1)
  ELSE Append(SubSeq(n, 1, Len(n) - 1), n[Len(n)] - 1)
PlusOne(r) ==
  IF r.neg THEN MkNum(TRUE, Pred(r.int), <<>>) ELSE MkNum(FALSE, MulAdd(r.int, 1, 1), <<>>)

----------------------------------------------------------------------------
(* C1: the unit format picks by itself.                                    *)

\* The largest unit whose multiplier is at most mag: 1024^k is at most mag
\* exactly when mag has more than k limbs before the point.
UnitLabels ==
  <<<<"B">>, Ch("K", "B"), Ch("M", "B"), Ch("G", "B"), Ch("T", "B"), Ch("P", "B")>>
LargestUnit(mag) ==
  UnitLabels[IF Len(mag.int) = 0 THEN 1 ELSE IF Len(mag.int) >= 6 THEN 6 ELSE Len(mag.int)]

\* options.unit is absent, empty, or none of the six units.
UnitNotKnown(options) ==
  \/ Get(options, "unit") = JSUndefined
  \/ /\ Get(options, "unit").t = "string"
     /\ toLowerCase(Get(options, "unit").s) \notin UnitKeys

\* str ends with the label, and what stands before the label is no letter.
LabelledWith(str, label) ==
  /\ EndsWith(str, label)
  /\ Len(str) > Len(label)
  /\ ~IsLetter(str[Len(str) - Len(label)])

\* C1: when options.unit is absent, empty or not one of the six known units,
\* the string format returns for a finite value is labelled with the largest
\* unit whose multiplier is at most abs(value), B below 1024.
C1_AutoSelectedUnit ==
  (FormatReturned /\ IsFinite(call.value) /\ UnitNotKnown(call.options)
     /\ result.t = "string")
    => LabelledWith(result.s, LargestUnit(call.value.v))

----------------------------------------------------------------------------
(* C2: trailing zeros of the fraction.                                     *)

\* str without the zeros that end its fraction, and without the point when
\* nothing but zeros followed it.
RECURSIVE DropZeros(_)
DropZeros(str) ==
  IF str[Len(str)] = "0" THEN DropZeros(SubSeq(str, 1, Len(str) - 1))
  ELSE IF str[Len(str)] = "." THEN SubSeq(str, 1, Len(str) - 1)
  ELSE str
TrimZeros(str) == IF Contains(str, ".") THEN DropZeros(str) ELSE str

\* C2: when fixedDecimals is false, the numeric part of the string format
\* returns for a finite value never ends in "0" after a decimal point, and
\* (no thousands separator being asked for) it is the fixed-precision text
\* with the trailing zeros of its fraction removed.
C2_TrailingZerosRemoved ==
  (FormatReturned /\ IsFinite(call.value) /\ ~OptFixedDecimals(call.options)
     /\ result.t = "string")
    => /\ ~(/\ Contains(NumericPart(result.s), ".")
            /\ NumericPart(result.s)[Len(NumericPart(result.s))] = "0")
       /\ ~ToBoolean(OptThousandsSeparator(call.options))
            => NumericPart(result.s)
                 = TrimZeros(NumericPart(
                     format(call.value,
                            WithOption(call.options, "fixedDecimals", JSBoolean(TRUE)),
                            map, formatThousandsRegExp).ret.s))

----------------------------------------------------------------------------
(* C3: the thousands separator.                                            *)

\* Digits in groups of three counted from the right, sep between them.
RECURSIVE GroupDigits(_, _)
GroupDigits(ds, sep) ==
  IF Len(ds) <= 3 THEN ds
  ELSE GroupDigits(SubSeq(ds, 1, Len(ds) - 3), sep) \o sep \o SubSeq(ds, Len(ds) - 2, Len(ds))

\* num with the digits of its integer portion grouped; the sign and what
\* follows the integer portion stay as they are.
GroupedFrom(num, sep, sign) ==
  SubSeq(num, 1, sign)
    \o GroupDigits(SubSeq(num, sign + 1, sign + DigitRun(num, sign)), sep)
    \o SubSeq(num, sign + DigitRun(num, sign) + 1, Len(num))
Grouped(num, sep) ==
  GroupedFrom(num, sep, IF num # <<>> /\ num[1] = "-" THEN 1 ELSE 0)

\* C3: when thousandsSeparator is not empty, the numeric part of the string
\* format returns for a finite value is the numeric part without separator
\* with the separator put into the integer portion only, between groups of
\* three digits counted from the right.
C3_SeparatorInIntegerPortion ==
  (FormatReturned /\ IsFinite(call.value) /\ ToBoolean(OptThousandsSeparator(call.options))
     /\ result.t = "string")
    => NumericPart(result.s)
         = Grouped(NumericPart(
                     format(call.value,
                            WithOption(call.options, "thousandsSeparator", JSUndefined),
                            map, formatThousandsRegExp).ret.s),
                   OptThousandsSeparator(call.options).s)

----------------------------------------------------------------------------
(* C4: parse of a number with a unit.                                      *)

\* A string read as [sign] digits ['.' digits] [spaces] unit: whether it has
\* that form, and its parts.
LastTwo(str) == IF Len(str) >= 2 THEN toLowerCase(SubSeq(str, Len(str) - 1, Len(str))) ELSE <<>>
GrammarRead(str, sign, d1, d2) ==
  [ok   |-> /\ d1 >= 1
            /\ LastTwo(str) \in ParseUnits
            /\ LET q == sign + d1 + (IF d2 > 0 THEN 1 + d2 ELSE 0)
               IN  q + SpaceRun(str, q) + 2 = Len(str),
   neg  |-> sign = 1 /\ str[1] = "-",
   int  |-> ToDigits(SubSeq(str, sign + 1, sign + d1)),
   frac |-> ToDigits(SubSeq(str, sign + d1 + 2, sign + d1 + 1 + d2)),
   unit |-> LastTwo(str)]
GrammarFrom(str, sign, d1) ==
  GrammarRead(str, sign, d1,
              IF sign + d1 + 1 <= Len(str) /\ str[sign + d1 + 1] = "."
              THEN DigitRun(str, sign + d1 + 1) ELSE 0)
GrammarSigned(str, sign) == GrammarFrom(str, sign, DigitRun(str, sign))
Grammar(str) ==
  GrammarSigned(str, IF Len(str) >= 1 /\ str[1] \in {"-", "+"} THEN 1 ELSE 0)

\* The k of the multiplier 1024^k of a unit.
UnitPower(u) == CHOOSE k \in 1..5 : <<KeyKB, KeyMB, KeyGB, KeyTB, KeyPB>>[k] = u

\* x * 1024^k
TimesPower(x, k) == PointAt(x.neg, x.int \o x.frac \o Zeros(k), Len(x.frac))

\* r is an integer, and r <= P < r + 1.
IsFloorOf(r, P) ==
  /\ r.nk = "fin" /\ r.frac = <<>>
  /\ LessEq(r, P)
  /\ ~LessEq(PlusOne(r), P)

\* The floor of (-)N / D for natural numbers N and D, by integer division.
FloorOfQuotient(neg, qr) ==
  IF neg /\ qr.r # 0 THEN MkNum(TRUE, MulAdd(qr.q, 1, 1), <<>>) ELSE MkNum(neg, qr.q, <<>>)
ExactFloor(g, k) ==
  FloorOfQuotient(g.neg, DivStep(DigitsToBig(g.int \o g.frac, <<>>) \o Zeros(k),
                                 Pow10(Len(g.frac)), 0, <<>>))

ParsedAsFloor(r, g, k) ==
  /\ IsFloorOf(r, TimesPower(DecimalToDouble(g.neg, g.int, g.frac), k))
  /\ k <= 3 => r = ExactFloor(g, k)

\* C4: for a string of the form [sign] digits ['.' digits] [spaces] unit,
\* unit one of kb, mb, gb, tb, pb in any letter case, parse returns the
\* integer r with r <= number * multiplier < r + 1, the number being the
\* double the digits denote: the floor is toward minus infinity.  For kb, mb
\* and gb this is the floor of the exact decimal product as well.
C4_ParseIsFloor ==
  (ParseReturned /\ call.value.t = "string" /\ Grammar(call.value.s).ok)
    => /\ result.t = "number"
       /\ ParsedAsFloor(result.v, Grammar(call.value.s),
                        UnitPower(Grammar(call.value.s).unit))

\* parse("-0.01kb") has returned -11: a negative product with a fraction.
C4_NegativeFractionParsed ==
  /\ ParseReturned
  /\ call.value = JSString(<<"-", "0", ".", "0", "1", "k", "b">>)
  /\ result = JSNumber(MkNum(TRUE, <<11>>, <<>>))

----------------------------------------------------------------------------
(* C5: parse after format.                                                 *)

\* n / 1024^k for the unit format picks has at most two fractional digits:
\* a multiple of a power of two does so exactly when it is a multiple of 1/4.
QuotientFraction(n, k) == StripTrail(SubSeq(n.int, Len(n.int) - k + 1, Len(n.int)))
TwoFractionDigits(n) ==
  QuotientFraction(n, IF Len(n.int) = 0 THEN 0 ELSE IF Len(n.int) >= 6 THEN 5
                      ELSE Len(n.int) - 1)
    \in {<<>>, <<Base \div 4>>, <<Base \div 2>>, <<3 * (Base \div 4)>>}

\* C5: for every integer n whose quotient by the multiplier of the unit
\* format picks has at most two fractional digits, parse(format(n)) = n
\* under default options.
C5_RoundTrip ==
  (FormatReturned /\ call.options = JSUndefined /\ IsFinite(call.value)
     /\ call.value.v.frac = <<>> /\ TwoFractionDigits(call.value.v))
    => /\ result.t = "string"
       /\ parse(result, map, parseRegExp) = call.value

----------------------------------------------------------------------------
(* C6: the dispatcher.                                                     *)

\* C6: convert(value, options) returns parse(value) for a string, whatever
\* the options, format(value, options) for a number, and null for a value
\* of any other type.
C6_Dispatch ==
  ConvertReturned
    => result = IF TypeOf(call.value) = "string" THEN parse(call.value, map, parseRegExp)
                ELSE IF TypeOf(call.value) = "number"
                THEN format(call.value, call.options, map, formatThousandsRegExp).ret
                ELSE JSNull

\* convert has parsed a string it was given options with.
C6_StringWithOptions ==
  /\ ConvertReturned
  /\ TypeOf(call.value) = "string"
  /\ call.options # JSUndefined
  /\ result.t = "number" /\ result.v.nk = "fin"

----------------------------------------------------------------------------
(* C7: what format returns.                                                *)

\* C7: format returns null exactly when value is not finite, and a string
\* for every finite value, whatever the options.
C7_NullIffNotFinite ==
  FormatReturned
    => /\ (result = JSNull) <=> ~IsFinite(call.value)
       /\ IsFinite(call.value) => result.t = "string"

----------------------------------------------------------------------------
(* C8: when parse returns null.                                            *)

IsNumberOrString(v) == TypeOf(v) \in {"number", "string"}

\* C8 as stated: parse returns null only for a value that is neither a
\* number nor a string; NaN and the infinities are numbers.
C8_NullOnlyForOtherTypes ==
  (ParseReturned /\ IsNumberOrString(call.value)) => result # JSNull

\* C8 amended: parse returns null exactly for the values that are neither
\* numbers nor strings and for NaN; for every other number and for every
\* string it returns a number.
C8_NullForOtherTypesAndNaN ==
  ParseReturned
    => /\ (result = JSNull) <=> (~IsNumberOrString(call.value) \/ call.value = JSNumber(NaN))
       /\ result # JSNull => result.t = "number"

\* parse(NaN) has returned null.
C8_NaNParsed ==
  /\ ParseReturned
  /\ call.value = JSNumber(NaN)
  /\ result = JSNull

----------------------------------------------------------------------------
(* C9: exceptions.                                                         *)

\* C9: no call of convert, format or parse raises an exception.
C9_NothingRaised == pc = "returned" => result.t # "throw"

----------------------------------------------------------------------------
(* C10: the module's state.                                                *)

\* What the call c returns when the module is as loaded.
FreshResult(c) ==
  CASE c.fn = "format"  -> format(c.value, c.options, InitMap, InitRegExp(TRUE, FALSE)).ret
    [] c.fn = "parse"   -> parse(c.value, InitMap, InitRegExp(FALSE, TRUE))
    [] c.fn = "convert" -> convert(c.value, c.options, InitMap, InitRegExp(TRUE, FALSE),
                                   InitRegExp(FALSE, TRUE)).ret

\* C10: whatever calls were made, the table holds its six entries, lastIndex
\* of each of the three patterns is 0, and the call that has just returned
\* returned what it returns when the module is as loaded.
C10_ModuleStateKept ==
  /\ map = InitMap
  /\ Cardinality(DOMAIN map) = 6
  /\ formatThousandsRegExp = InitRegExp(TRUE, FALSE)
  /\ formatDecimalsRegExp = InitRegExp(FALSE, FALSE)
  /\ parseRegExp = InitRegExp(FALSE, TRUE)
  /\ pc = "returned" => result = FreshResult(call)

\* format has put a thousands separator into its result, the global pattern
\* having matched, and lastIndex is 0.
C10_SeparatorInserted ==
  /\ FormatReturned
  /\ result.t = "string" /\ Contains(result.s, ",")
  /\ formatThousandsRegExp.lastIndex = 0

====
